---- MODULE Spec2Model ----
(***************************************************************************)
(* Model of the relay operator strategy registry (op_attr_types.cc/.h)     *)
(* and of the common type relations (type_relations.cc).                   *)
(*                                                                         *)
(* C++ arrays are 0-based, TLA+ sequences 1-based: types[k] of the source  *)
(* is types[k+1] here, and a reporter slot number is the 1-based index.    *)
(***************************************************************************)
EXTENDS Integers, Sequences, FiniteSets, TLC

(***************************************************************************)
(* Bounds of the model.                                                    *)
(***************************************************************************)
\* number of distinct SpecializedCondition objects that can be current
NumCondObjs == 3
\* number of OpStrategy::AddImplement calls explored
MaxCalls == 3
\* largest rank of the enumerated shapes
MaxRank == 2
\* largest concrete dim of the enumerated shapes
MaxDim == 2
\* number of times one relation is invoked on the same types
MaxInvocations == 2

VARIABLES
  specializations, \* OpStrategyNode::specializations
  curr_cond,       \* the condition read by the last OpStrategy::AddImplement
  nobjects,        \* number of OpImplementNode objects allocated so far
  calls,           \* history: the condition each AddImplement call ran under
  queried,         \* TRUE iff selected/active hold the result of a selection
  active,          \* the condition the last selection ran under
  selected,        \* the implementation the last selection chose
  rel,             \* the type relation of the invocation
  types,           \* the invocation's types array
  ret,             \* outcome of the last call of the relation
  err,             \* which fatal path the last call ended on
  log,             \* every reporter->Assign made, in order
  last,            \* the reporter->Assign calls of the last call
  warnings,        \* number of LOG(WARNING) lines emitted
  shape_computed,  \* TRUE iff the last call entered ConcreteBroadcast
  invocations      \* number of calls of the relation

svars == <<specializations, curr_cond, nobjects, calls, queried, active, selected>>
rvars == <<rel, types, ret, err, log, last, warnings, shape_computed, invocations>>
vars == <<svars, rvars>>

(***************************************************************************)
(* Operator strategy: conditions, implementations, specializations.        *)
(***************************************************************************)

\* An undefined SpecializedCondition reference: the generic case.
Undefined == [clauses |-> "generic", inst |-> 0]

\* Condition objects: inst is the identity of the object, clauses its value.
\* Objects 1 and 3 are two instances with equal clauses.
Conditions ==
  {[clauses |-> IF i % 2 = 1 THEN "A" ELSE "B", inst |-> i] : i \in 1..NumCondObjs}
    \cup {Undefined}

Computes == {"c1", "c2"}
Schedules == {"s1"}
PLevels == {5, 10}

\* e->condition == curr_cond
CondEq(a, b) == a.clauses = b.clauses

\* The result of a selection that found nothing.
NoImplement == [fcompute |-> "none", fschedule |-> "none", plevel |-> 0, id |-> 0]

\* OpImplementNode made by OpSpecialization::AddImplement; id is the identity
\* of the freshly allocated node.
OpImplement(fcompute, fschedule, plevel, id) ==
  [fcompute |-> fcompute, fschedule |-> fschedule, plevel |-> plevel, id |-> id]

OpSpecializationAddImplement_Prepend(spec, fcompute, fschedule, plevel, id) ==
  [spec EXCEPT !.implements = <<OpImplement(fcompute, fschedule, plevel, id)>> \o @]

OpSpecializationAddImplement(spec, fcompute, fschedule, plevel, id) ==
  [spec EXCEPT !.implements = Append(@, OpImplement(fcompute, fschedule, plevel, id))]

FindSpecialization_Never(specs, cond) == 0

\* The lookup loop of OpStrategy::AddImplement: the index of the first
\* specialization whose condition equals cond, 0 when op_spec stays undefined.
FindSpecialization(specs, cond) ==
  LET hits == {k \in 1..Len(specs) : CondEq(specs[k].condition, cond)}
  IN IF hits = {} THEN 0 ELSE CHOOSE k \in hits : \A j \in hits : k <= j

OpStrategyAddImplement_EmptyNew(specs, cond, fcompute, fschedule, plevel, id) ==
  LET k == FindSpecialization(specs, cond)
  IN IF k # 0
       THEN [specs EXCEPT ![k] =
               OpSpecializationAddImplement(@, fcompute, fschedule, plevel, id)]
       ELSE Append(specs, [condition |-> cond, implements |-> <<>>])

OpStrategyAddImplement_NewFirst(specs, cond, fcompute, fschedule, plevel, id) ==
  LET k == FindSpecialization(specs, cond)
  IN IF k # 0
       THEN [specs EXCEPT ![k] =
               OpSpecializationAddImplement(@, fcompute, fschedule, plevel, id)]
       ELSE <<OpSpecializationAddImplement(
                [condition |-> cond, implements |-> <<>>],
                fcompute, fschedule, plevel, id)>> \o specs

OpStrategyAddImplement(specs, cond, fcompute, fschedule, plevel, id) ==
  LET k == FindSpecialization(specs, cond)
  IN IF k # 0
       THEN [specs EXCEPT ![k] =
               OpSpecializationAddImplement(@, fcompute, fschedule, plevel, id)]
       ELSE Append(specs,
                   OpSpecializationAddImplement(
                     [condition |-> cond, implements |-> <<>>],
                     fcompute, fschedule, plevel, id))

\* Selection, as the compiler performs it on the registered data: the
\* specialization whose condition matches the active one, else the generic
\* one; 0 when there is neither.
MatchingSpecialization(specs, cond) ==
  LET k == FindSpecialization(specs, cond)
  IN IF k # 0 THEN k ELSE FindSpecialization(specs, Undefined)

RECURSIVE BestImplement(_, _, _)
\* Walk the implementations in stored order; a later one replaces the best
\* so far only when its plevel is strictly greater.
BestImplement(impls, i, best) ==
  IF i > Len(impls) THEN best
  ELSE BestImplement(impls, i + 1,
         IF best = NoImplement \/ best.plevel < impls[i].plevel
           THEN impls[i] ELSE best)

SelectImplement(specs, cond) ==
  LET k == MatchingSpecialization(specs, cond)
  IN IF k = 0 THEN NoImplement ELSE BestImplement(specs[k].implements, 1, NoImplement)

SInit ==
  /\ specializations = <<>>
  /\ curr_cond = Undefined
  /\ nobjects = 0
  /\ calls = <<>>
  /\ queried = FALSE
  /\ active = Undefined
  /\ selected = NoImplement

AddImplement ==
  /\ Len(calls) < MaxCalls
  /\ \E c \in Conditions, fc \in Computes, fs \in Schedules, pl \in PLevels :
       /\ curr_cond' = c
       /\ calls' = Append(calls, c)
       /\ specializations' =
            OpStrategyAddImplement(specializations, c, fc, fs, pl, nobjects + 1)
  /\ nobjects' = nobjects + 1
  /\ queried' = FALSE
  /\ active' = Undefined
  /\ selected' = NoImplement
  /\ UNCHANGED rvars

Select ==
  /\ \E c \in Conditions :
       /\ active' = c
       /\ selected' = SelectImplement(specializations, c)
  /\ queried' = TRUE
  /\ UNCHANGED <<specializations, curr_cond, nobjects, calls>>
  /\ UNCHANGED rvars


(***************************************************************************)
(* Types, index expressions and the helpers of type_relations.cc.          *)
(***************************************************************************)

\* Index expressions: an integer literal, the Any wildcard, a symbolic var.
IntDim(v) == [k |-> "int", v |-> v]
AnyDim == [k |-> "any", v |-> 0]
VarDim(v) == [k |-> "var", v |-> v]

Dtypes == {"float32", "int32", "bool"}

TensorType(shape, dtype) == [kind |-> "TensorType", dtype |-> dtype, shape |-> shape]
\* A type that is not a TensorType: an unresolved placeholder.
IncompleteType == [kind |-> "IncompleteType", dtype |-> "none", shape |-> <<>>]
\* TensorType(nullptr)
NullTensor == [kind |-> "null", dtype |-> "none", shape |-> <<>>]

ToTensorType_Lenient(t) ==
  IF t.kind = "TensorType" THEN t ELSE TensorType(<<>>, "float32")

ToTensorType(t) == IF t.kind = "TensorType" THEN t ELSE NullTensor

\* CanonicalSimplify(lhs - rhs) is the constant 0: the simplifier cancels a
\* term against itself and leaves distinct atoms apart.
SimplifiesToZero(lhs, rhs) == lhs = rhs

EqualCheck(lhs, rhs) ==
  IF lhs.k = "int" /\ rhs.k = "int"
    THEN lhs.v - rhs.v = 0
    ELSE SimplifiesToZero(lhs, rhs)

EqualConstInt(lhs, value) == lhs.k = "int" /\ lhs.v = value

\* s.same_as(Any())
IsAny(s) == s.k = "any"

\* One aligned pair of ConcreteBroadcast's first loop: the dim pushed on
\* oshape, whether a warning is logged, whether the error is raised.
BroadcastPair_AnyFirst(s1, s2) ==
  IF EqualCheck(s1, s2) THEN [dim |-> s1, warn |-> 0, raise |-> FALSE]
  ELSE IF IsAny(s1) THEN [dim |-> s2, warn |-> 1, raise |-> FALSE]
  ELSE IF IsAny(s2) THEN [dim |-> s1, warn |-> 1, raise |-> FALSE]
  ELSE IF EqualConstInt(s1, 1) THEN [dim |-> s2, warn |-> 0, raise |-> FALSE]
  ELSE IF EqualConstInt(s2, 1) THEN [dim |-> s1, warn |-> 0, raise |-> FALSE]
  ELSE [dim |-> s1, warn |-> 0, raise |-> TRUE]

BroadcastPair(s1, s2) ==
  IF EqualCheck(s1, s2) THEN [dim |-> s1, warn |-> 0, raise |-> FALSE]
  ELSE IF EqualConstInt(s1, 1) THEN [dim |-> s2, warn |-> 0, raise |-> FALSE]
  ELSE IF EqualConstInt(s2, 1) THEN [dim |-> s1, warn |-> 0, raise |-> FALSE]
  ELSE IF IsAny(s1) THEN [dim |-> s2, warn |-> 1, raise |-> FALSE]
  ELSE IF IsAny(s2) THEN [dim |-> s1, warn |-> 1, raise |-> FALSE]
  ELSE [dim |-> s1, warn |-> 0, raise |-> TRUE]

Min(a, b) == IF a <= b THEN a ELSE b
Max(a, b) == IF a >= b THEN a ELSE b

\* Array<IndexExpr>(oshape.rbegin(), oshape.rend())
Reversed(s) == [j \in 1..Len(s) |-> s[Len(s) + 1 - j]]

RECURSIVE OverlapLoop(_, _, _, _)
\* for (; i <= std::min(ndim1, ndim2); ++i): the state of the loop is
\* (oshape, warnings so far); the loop is left at once when the error is raised.
OverlapLoop(shape1, shape2, i, acc) ==
  LET ndim1 == Len(shape1)
      ndim2 == Len(shape2)
  IN IF i > Min(ndim1, ndim2) THEN acc
     ELSE LET p == BroadcastPair(shape1[ndim1 - i + 1], shape2[ndim2 - i + 1])
          IN IF p.raise
               THEN [oshape |-> acc.oshape, warns |-> acc.warns + p.warn, raised |-> TRUE]
               ELSE OverlapLoop(shape1, shape2, i + 1,
                      [oshape |-> Append(acc.oshape, p.dim),
                       warns |-> acc.warns + p.warn, raised |-> FALSE])

RECURSIVE LeadingLoop(_, _, _, _)
\* for (; i <= max_ndim; ++i) oshape.push_back(rshape[max_ndim - i]);
LeadingLoop(rshape, max_ndim, i, oshape) ==
  IF i > max_ndim THEN oshape
  ELSE LeadingLoop(rshape, max_ndim, i + 1, Append(oshape, rshape[max_ndim - i + 1]))

ConcreteBroadcast_NoReverse(t1, t2, output_dtype) ==
  LET ndim1 == Len(t1.shape)
      ndim2 == Len(t2.shape)
      first == OverlapLoop(t1.shape, t2.shape, 1,
                           [oshape |-> <<>>, warns |-> 0, raised |-> FALSE])
      max_ndim == Max(ndim1, ndim2)
      rshape == IF ndim1 > ndim2 THEN t1.shape ELSE t2.shape
  IN IF first.raised
       THEN [raised |-> TRUE, warns |-> first.warns, type |-> NullTensor]
       ELSE [raised |-> FALSE, warns |-> first.warns,
             type |-> TensorType(
                        LeadingLoop(rshape, max_ndim, Min(ndim1, ndim2) + 1, first.oshape),
                        output_dtype)]

ConcreteBroadcast(t1, t2, output_dtype) ==
  LET ndim1 == Len(t1.shape)
      ndim2 == Len(t2.shape)
      first == OverlapLoop(t1.shape, t2.shape, 1,
                           [oshape |-> <<>>, warns |-> 0, raised |-> FALSE])
      max_ndim == Max(ndim1, ndim2)
      rshape == IF ndim1 > ndim2 THEN t1.shape ELSE t2.shape
  IN IF first.raised
       THEN [raised |-> TRUE, warns |-> first.warns, type |-> NullTensor]
       ELSE [raised |-> FALSE, warns |-> first.warns,
             type |-> TensorType(
                        Reversed(LeadingLoop(rshape, max_ndim,
                                             Min(ndim1, ndim2) + 1, first.oshape)),
                        output_dtype)]


(***************************************************************************)
(* The relations.  A call ends by returning true or false or on a fatal    *)
(* path; its outcome lists the reporter->Assign calls it made.             *)
(***************************************************************************)
Fatal(e, w, c) ==
  [ret |-> "fatal", err |-> e, assigns |-> <<>>, warns |-> w, computed |-> c]
ReturnFalse ==
  [ret |-> "false", err |-> "none", assigns |-> <<>>, warns |-> 0, computed |-> FALSE]
ReturnTrue(a, w, c) ==
  [ret |-> "true", err |-> "none", assigns |-> a, warns |-> w, computed |-> c]

IdentityRel_FromZero(ts) ==
  ReturnTrue([i \in 1..Len(ts) |-> [slot |-> i, value |-> ts[1]]], 0, FALSE)

\* for (size_t i = 1; i < types.size(); ++i) reporter->Assign(types[i], types[0]);
IdentityRel(ts) ==
  ReturnTrue([i \in 1..(Len(ts) - 1) |-> [slot |-> i + 1, value |-> ts[1]]], 0, FALSE)

BroadcastRel_NoDtypeCheck(ts) ==
  IF Len(ts) # 3 THEN Fatal("check_size", 0, FALSE)
  ELSE LET t0 == ToTensorType(ts[1])
           t1 == ToTensorType(ts[2])
       IN IF t0 = NullTensor \/ t1 = NullTensor THEN ReturnFalse
          ELSE IF FALSE THEN Fatal("check_dtype", 0, FALSE)
          ELSE LET b == ConcreteBroadcast(t0, t1, t0.dtype)
               IN IF b.raised THEN Fatal("incompatible", b.warns, TRUE)
                  ELSE ReturnTrue(<<[slot |-> 3, value |-> b.type]>>, b.warns, TRUE)

BroadcastRel_SkipResolved(ts) ==
  IF Len(ts) # 3 THEN Fatal("check_size", 0, FALSE)
  ELSE LET t0 == ToTensorType(ts[1])
           t1 == ToTensorType(ts[2])
       IN IF ts[3].kind = "TensorType" \/ t0 = NullTensor \/ t1 = NullTensor THEN ReturnFalse
          ELSE IF t0.dtype # t1.dtype THEN Fatal("check_dtype", 0, FALSE)
          ELSE LET b == ConcreteBroadcast(t0, t1, t0.dtype)
               IN IF b.raised THEN Fatal("incompatible", b.warns, TRUE)
                  ELSE ReturnTrue(<<[slot |-> 3, value |-> b.type]>>, b.warns, TRUE)

BroadcastRel(ts) ==
  IF Len(ts) # 3 THEN Fatal("check_size", 0, FALSE)
  ELSE LET t0 == ToTensorType(ts[1])
           t1 == ToTensorType(ts[2])
       IN IF t0 = NullTensor \/ t1 = NullTensor THEN ReturnFalse
          ELSE IF t0.dtype # t1.dtype THEN Fatal("check_dtype", 0, FALSE)
          ELSE LET b == ConcreteBroadcast(t0, t1, t0.dtype)
               IN IF b.raised THEN Fatal("incompatible", b.warns, TRUE)
                  ELSE ReturnTrue(<<[slot |-> 3, value |-> b.type]>>, b.warns, TRUE)

BroadcastCompRel_InputDtype(ts) ==
  IF Len(ts) # 3 THEN Fatal("check_size", 0, FALSE)
  ELSE LET t0 == ToTensorType(ts[1])
           t1 == ToTensorType(ts[2])
       IN IF t0 = NullTensor \/ t1 = NullTensor THEN ReturnFalse
          ELSE IF t0.dtype # t1.dtype THEN Fatal("check_dtype", 0, FALSE)
          ELSE LET b == ConcreteBroadcast(t0, t1, t0.dtype)
               IN IF b.raised THEN Fatal("incompatible", b.warns, TRUE)
                  ELSE ReturnTrue(<<[slot |-> 3, value |-> b.type]>>, b.warns, TRUE)

BroadcastCompRel(ts) ==
  IF Len(ts) # 3 THEN Fatal("check_size", 0, FALSE)
  ELSE LET t0 == ToTensorType(ts[1])
           t1 == ToTensorType(ts[2])
       IN IF t0 = NullTensor \/ t1 = NullTensor THEN ReturnFalse
          ELSE IF t0.dtype # t1.dtype THEN Fatal("check_dtype", 0, FALSE)
          ELSE LET b == ConcreteBroadcast(t0, t1, "bool")
               IN IF b.raised THEN Fatal("incompatible", b.warns, TRUE)
                  ELSE ReturnTrue(<<[slot |-> 3, value |-> b.type]>>, b.warns, TRUE)


\* The reporter: Assign(dst, src) resolves the slot dst to src when dst is
\* still an unresolved placeholder.
RECURSIVE ReporterAssign(_, _, _)
ReporterAssign(ts, assigns, i) ==
  IF i > Len(assigns) THEN ts
  ELSE ReporterAssign(
         IF ts[assigns[i].slot].kind = "IncompleteType"
           THEN [ts EXCEPT ![assigns[i].slot] = assigns[i].value] ELSE ts,
         assigns, i + 1)

(***************************************************************************)
(* Inputs of the relations.                                                *)
(***************************************************************************)
Dims == {IntDim(v) : v \in 0..MaxDim} \cup {AnyDim}

ShapesOver(D, r) == UNION {[1..n -> D] : n \in 0..r}

\* Shapes of the documented cases, and shapes with symbolic dims.
ExampleShapes ==
  { <<IntDim(8), IntDim(1), IntDim(6), IntDim(1)>>, <<IntDim(7), IntDim(1), IntDim(5)>>,
    <<IntDim(5), IntDim(4)>>, <<IntDim(4)>>, <<IntDim(3), IntDim(4)>>,
    <<IntDim(3)>>,
    <<VarDim(1)>>, <<VarDim(2)>>, <<VarDim(1), IntDim(1)>>, <<AnyDim, VarDim(1)>> }

Shapes == ShapesOver(Dims, MaxRank) \cup ExampleShapes

InputTypes == {TensorType(s, d) : s \in Shapes, d \in Dtypes} \cup {IncompleteType}

\* Types arrays for IdentityRel, of every length from 0, and arrays of a
\* wrong length for the broadcast relations.
SmallTypes ==
  {IncompleteType, TensorType(<<IntDim(2)>>, "float32"), TensorType(<<>>, "bool")}

SmallArrays == UNION {[1..n -> SmallTypes] : n \in 0..MaxRank + 1}

Relations == {"IdentityRel", "BroadcastRel", "BroadcastCompRel"}

RIdle ==
  /\ ret = "none"
  /\ err = "none"
  /\ log = <<>>
  /\ last = <<>>
  /\ warnings = 0
  /\ shape_computed = FALSE
  /\ invocations = 0

RInit ==
  /\ \/ /\ rel \in {"BroadcastRel", "BroadcastCompRel"}
        /\ \E a \in InputTypes, b \in InputTypes : types = <<a, b, IncompleteType>>
     \/ /\ rel \in Relations
        /\ types \in SmallArrays
  /\ RIdle

\* One call of the relation rel on the current types, with outcome o.
Invoke(o) ==
  /\ ret' = o.ret
  /\ err' = o.err
  /\ last' = o.assigns
  /\ log' = log \o o.assigns
  /\ types' = ReporterAssign(types, o.assigns, 1)
  /\ warnings' = warnings + o.warns
  /\ shape_computed' = o.computed
  /\ invocations' = invocations + 1
  /\ UNCHANGED <<rel>>
  /\ UNCHANGED svars

\* A fatal path aborts the compilation: the relation is not called again.
CanInvoke == invocations < MaxInvocations /\ ret # "fatal"

CallIdentityRel == rel = "IdentityRel" /\ CanInvoke /\ Invoke(IdentityRel(types))

CallBroadcastRel == rel = "BroadcastRel" /\ CanInvoke /\ Invoke(BroadcastRel(types))

CallBroadcastCompRel ==
  rel = "BroadcastCompRel" /\ CanInvoke /\ Invoke(BroadcastCompRel(types))

(***************************************************************************)
(* Specifications: the strategy registry, and the type relations.          *)
(***************************************************************************)
StrategyInit == SInit /\ rel = "IdentityRel" /\ types = <<>> /\ RIdle
StrategyNext == AddImplement \/ Select
StrategySpec == StrategyInit /\ [][StrategyNext]_vars

RelInit == RInit /\ SInit
RelNext == CallIdentityRel \/ CallBroadcastRel \/ CallBroadcastCompRel
RelSpec == RelInit /\ [][RelNext]_vars


(***************************************************************************)
(* Properties of the strategy registry (StrategySpec).                     *)
(***************************************************************************)
RECURSIVE TotalImplements(_, _)
TotalImplements(specs, k) ==
  IF k > Len(specs) THEN 0 ELSE Len(specs[k].implements) + TotalImplements(specs, k + 1)

\* The calls made so far under a condition whose value is v.
CallsUnder(v) == {n \in 1..Len(calls) : calls[n].clauses = v}

\* The specializations whose condition has the value v.
SpecsFor(v) == {k \in 1..Len(specializations) : specializations[k].condition.clauses = v}

\* C1: the conditions of the strategy's specializations are pairwise distinct
\* by value, whatever instances the AddImplement calls ran under.
C1_DistinctConditions ==
  \A i, j \in 1..Len(specializations) :
    i # j => specializations[i].condition.clauses # specializations[j].condition.clauses

\* C1 witness: a call ran under another instance of the condition of an
\* existing specialization, and joined it.
C1_Witness ==
  /\ Len(calls) = 2
  /\ calls[1].clauses = calls[2].clauses
  /\ calls[1].inst # calls[2].inst
  /\ Len(specializations) = 1
  /\ specializations[1].condition = calls[1]

\* C2: every call adds exactly one implementation, to the specialization of
\* the condition the call ran under: after n calls there are n implementations
\* in all and no empty specialization, each condition value used by k calls
\* has exactly one specialization and it holds k implementations, and the
\* implementation of the last call is the last one of its specialization.
C2_OneImplementPerCall ==
  /\ TotalImplements(specializations, 1) = Len(calls)
  /\ \A k \in 1..Len(specializations) : Len(specializations[k].implements) >= 1
  /\ \A n \in 1..Len(calls) :
       /\ Cardinality(SpecsFor(calls[n].clauses)) = 1
       /\ \A k \in SpecsFor(calls[n].clauses) :
            Len(specializations[k].implements) = Cardinality(CallsUnder(calls[n].clauses))
  /\ \A k \in 1..Len(specializations) : CallsUnder(specializations[k].condition.clauses) # {}
  /\ Len(calls) > 0 =>
       \A k \in SpecsFor(curr_cond.clauses) :
         specializations[k].implements[Len(specializations[k].implements)].id = nobjects

\* C2 witness: three calls, two of them under the same condition.
C2_Witness ==
  /\ Len(calls) = 3
  /\ calls[1] = calls[3]
  /\ calls[1].clauses # calls[2].clauses
  /\ Len(specializations) = 2
  /\ Len(specializations[1].implements) = 2
  /\ Len(specializations[2].implements) = 1

\* The specializations a selection under the active condition draws from:
\* those of the active condition, else the generic one.
C8_Matching ==
  IF SpecsFor(active.clauses) # {} THEN SpecsFor(active.clauses)
  ELSE SpecsFor(Undefined.clauses)

C8_Candidates ==
  UNION {{specializations[k].implements[i] : i \in 1..Len(specializations[k].implements)} :
           k \in C8_Matching}

\* C8: a selection chooses, among the implementations of the matching
\* specialization, one of maximum plevel and of those the first registered;
\* with {A: plevel 5, B: plevel 10} it chooses the plevel 5 one under A; with
\* neither a matching nor a generic specialization it has no result.
C8_Selection ==
  queried =>
    /\ (C8_Candidates = {}) = (selected = NoImplement)
    /\ selected # NoImplement =>
         /\ selected \in C8_Candidates
         /\ \A c \in C8_Candidates : c.plevel <= selected.plevel
         /\ \A c \in C8_Candidates : c.plevel = selected.plevel => selected.id <= c.id
    /\ (SpecsFor(active.clauses) = {} /\ SpecsFor(Undefined.clauses) = {}) =>
         selected = NoImplement
    /\ ( /\ Len(specializations) = 2
         /\ specializations[1].condition.clauses = "A"
         /\ specializations[2].condition.clauses = "B"
         /\ Len(specializations[1].implements) = 1
         /\ specializations[1].implements[1].plevel = 5
         /\ specializations[2].implements[1].plevel = 10
         /\ active.clauses = "A" ) => selected.plevel = 5

\* C8 witness: the documented case, and a tie decided for the first registered.
C8_Witness ==
  /\ queried
  /\ Len(specializations) = 2
  /\ specializations[1].condition.clauses = "A"
  /\ specializations[2].condition.clauses = "B"
  /\ Len(specializations[1].implements) = 2
  /\ specializations[1].implements[1].plevel = 5
  /\ specializations[1].implements[2].plevel = 5
  /\ specializations[2].implements[1].plevel = 10
  /\ active.clauses = "A"
  /\ selected = specializations[1].implements[1]


(***************************************************************************)
(* Properties of the type relations (RelSpec).                             *)
(***************************************************************************)
IsBroadcastRel == rel \in {"BroadcastRel", "BroadcastCompRel"}

\* A broadcast relation has been called on three types.
BroadcastCalled == IsBroadcastRel /\ invocations >= 1 /\ Len(types) = 3

BothTensors == types[1].kind = "TensorType" /\ types[2].kind = "TensorType"

IsConcrete(shape) == \A j \in 1..Len(shape) : shape[j].k = "int"

\* The dims of the i-th trailing-aligned pair of two shapes, i from 1.
Trailing(shape, i) == shape[Len(shape) + 1 - i]

Overlap(a, b) == 1..Min(Len(a), Len(b))

\* Every aligned pair of two concrete shapes is equal or has a literal 1.
ConcreteCompatible(a, b) ==
  \A i \in Overlap(a, b) :
    \/ Trailing(a, i).v = Trailing(b, i).v
    \/ Trailing(a, i).v = 1
    \/ Trailing(b, i).v = 1

\* Some aligned pair of concrete dims is neither equal nor has a literal 1.
ConcreteClash(a, b) ==
  \E i \in Overlap(a, b) :
    /\ Trailing(a, i).k = "int" /\ Trailing(b, i).k = "int"
    /\ Trailing(a, i).v # Trailing(b, i).v
    /\ Trailing(a, i).v # 1
    /\ Trailing(b, i).v # 1

\* The NumPy broadcast of two compatible concrete shapes, dim by dim from the
\* left: the dim of the longer shape where only one shape has a dim, else
\* the non-1 dim of the pair.
NumpyBroadcast(a, b) ==
  LET r == Max(Len(a), Len(b))
      da(j) == j - (r - Len(a))
      db(j) == j - (r - Len(b))
  IN [j \in 1..r |->
        IF da(j) < 1 THEN b[db(j)]
        ELSE IF db(j) < 1 THEN a[da(j)]
        ELSE IF a[da(j)].v = 1 THEN b[db(j)] ELSE a[da(j)]]

Ints(seq) == [j \in 1..Len(seq) |-> IntDim(seq[j])]

\* C3: on concrete shapes whose aligned pairs are each equal or have a
\* literal 1, the shape assigned is the NumPy broadcast shape, in natural
\* order; (8,1,6,1) with (7,1,5) gives (8,7,6,5), (5,4) with (4) gives (5,4),
\* (3) with () gives (3).
C3_NumpyShape ==
  (/\ BroadcastCalled /\ BothTensors
   /\ types[1].dtype = types[2].dtype
   /\ IsConcrete(types[1].shape) /\ IsConcrete(types[2].shape)
   /\ ConcreteCompatible(types[1].shape, types[2].shape))
  =>
   /\ ret = "true"
   /\ Len(last) = 1
   /\ last[1].value.kind = "TensorType"
   /\ last[1].value.shape = NumpyBroadcast(types[1].shape, types[2].shape)
   /\ Len(last[1].value.shape) = Max(Len(types[1].shape), Len(types[2].shape))
   /\ (types[1].shape = Ints(<<8, 1, 6, 1>>) /\ types[2].shape = Ints(<<7, 1, 5>>))
        => last[1].value.shape = Ints(<<8, 7, 6, 5>>)
   /\ (types[1].shape = Ints(<<5, 4>>) /\ types[2].shape = Ints(<<4>>))
        => last[1].value.shape = Ints(<<5, 4>>)
   /\ (types[1].shape = Ints(<<3>>) /\ types[2].shape = <<>>)
        => last[1].value.shape = Ints(<<3>>)

\* C3 witness: the rank 4 with rank 3 case has been broadcast.
C3_Witness ==
  /\ BroadcastCalled /\ BothTensors
  /\ types[1].shape = Ints(<<8, 1, 6, 1>>)
  /\ types[2].shape = Ints(<<7, 1, 5>>)
  /\ ret = "true"
  /\ last[1].value.shape = Ints(<<8, 7, 6, 5>>)

\* C4: on two TensorTypes with different dtypes, or with an aligned pair of
\* concrete dims that is neither equal nor has a literal 1, the call ends on
\* the fatal path and nothing is assigned; a dtype mismatch is reported
\* before any shape is computed.
C4_FatalPath ==
  (/\ BroadcastCalled /\ BothTensors
   /\ \/ types[1].dtype # types[2].dtype
      \/ ConcreteClash(types[1].shape, types[2].shape))
  =>
   /\ ret = "fatal"
   /\ log = <<>>
   /\ last = <<>>
   /\ types[1].dtype # types[2].dtype => (err = "check_dtype" /\ ~shape_computed)
   /\ types[1].dtype = types[2].dtype => (err = "incompatible" /\ shape_computed)

\* C4 witness: (3,4) with (5,4) of one dtype raised the incompatibility error.
C4_Witness ==
  /\ BroadcastCalled /\ BothTensors
  /\ types[1].dtype = types[2].dtype
  /\ types[1].shape = Ints(<<3, 4>>)
  /\ types[2].shape = Ints(<<5, 4>>)
  /\ err = "incompatible"

\* C5: when one of the two inputs is not a TensorType, in either position,
\* the relation returns false, raises nothing and assigns nothing.
C5_NotATensor ==
  (/\ BroadcastCalled
   /\ \/ types[1].kind # "TensorType"
      \/ types[2].kind # "TensorType")
  =>
   /\ ret = "false"
   /\ err = "none"
   /\ log = <<>>
   /\ last = <<>>

\* C5 witness: the second input alone is an unresolved placeholder.
C5_Witness ==
  /\ BroadcastCalled
  /\ types[1].kind = "TensorType"
  /\ types[1].dtype = "float32"
  /\ types[2] = IncompleteType
  /\ ret = "false"

\* Every aligned pair is equal, or has a literal 1 or the Any wildcard.
Broadcastable(a, b) ==
  \A i \in Overlap(a, b) :
    \/ Trailing(a, i) = Trailing(b, i)
    \/ Trailing(a, i) = IntDim(1) \/ Trailing(b, i) = IntDim(1)
    \/ Trailing(a, i) = AnyDim \/ Trailing(b, i) = AnyDim

\* What the other broadcast relation makes of the same two inputs.
OtherRelation ==
  IF rel = "BroadcastRel"
    THEN BroadcastCompRel(<<types[1], types[2], IncompleteType>>)
    ELSE BroadcastRel(<<types[1], types[2], IncompleteType>>)

\* C6: on two TensorTypes of one dtype d and broadcastable shapes,
\* BroadcastCompRel assigns a bool TensorType, BroadcastRel one of dtype d,
\* both return true and both assign the same shape.
C6_OutputDtype ==
  (/\ BroadcastCalled /\ BothTensors
   /\ types[1].dtype = types[2].dtype
   /\ Broadcastable(types[1].shape, types[2].shape))
  =>
   /\ ret = "true"
   /\ Len(last) = 1
   /\ last[1].slot = 3
   /\ last[1].value.kind = "TensorType"
   /\ rel = "BroadcastCompRel" => last[1].value.dtype = "bool"
   /\ rel = "BroadcastRel" => last[1].value.dtype = types[1].dtype
   /\ OtherRelation.ret = "true"
   /\ OtherRelation.assigns[1].value.shape = last[1].value.shape

\* C6 witness: a comparison of two float32 tensors was typed bool.
C6_Witness ==
  /\ BroadcastCalled /\ BothTensors
  /\ rel = "BroadcastCompRel"
  /\ types[1].dtype = "float32"
  /\ types[2].dtype = "float32"
  /\ ret = "true"
  /\ last[1].value.dtype = "bool"

IdentityCalled == rel = "IdentityRel" /\ invocations >= 1

\* What C7 says apart from the number of assignments: IdentityRel returns
\* true, assigns types[0] to every other slot and nothing to slot 0.
C7_Assignments ==
  /\ ret = "true"
  /\ err = "none"
  /\ \A i \in 2..Len(types) :
       \E j \in 1..Len(last) : last[j] = [slot |-> i, value |-> types[1]]
  /\ \A j \in 1..Len(last) : last[j].slot # 1 /\ last[j].value = types[1]

C9_Fixpoint ==
  [][(IsBroadcastRel /\ ret = "true" /\ types[3] = last[1].value) =>
       /\ ret' = "true"
       /\ err' = "none"
       /\ last' = last
       /\ types' = types
       /\ \A j \in 1..Len(log') : log'[j] = [slot |-> 3, value |-> types[3]]]_vars

\* C9 witness: the relation ran twice and assigned the same type twice.
C9_Witness ==
  /\ IsBroadcastRel
  /\ invocations = 2
  /\ ret = "true"
  /\ Len(log) = 2
  /\ log[1] = log[2]
  /\ types[3] = log[1].value

\* The aligned pairs with the Any wildcard on exactly one side.
OneSidedAny(a, b) ==
  {i \in Overlap(a, b) : (Trailing(a, i) = AnyDim) # (Trailing(b, i) = AnyDim)}

OtherSide(a, b, i) == IF Trailing(a, i) = AnyDim THEN Trailing(b, i) ELSE Trailing(a, i)

\* C10: a pair with Any on exactly one side never raises: when all pairs
\* are broadcastable the call returns true, and the output dim of such a
\* pair is the other side when that is not literal 1, with one warning, and
\* Any, without warning, when the other side is literal 1.
C10_AnyWildcard ==
  (/\ BroadcastCalled /\ BothTensors
   /\ types[1].dtype = types[2].dtype)
  =>
   LET a == types[1].shape
       b == types[2].shape
   IN /\ Broadcastable(a, b) => ret = "true"
      /\ ret = "true" =>
           /\ \A i \in OneSidedAny(a, b) :
                Trailing(last[1].value.shape, i) =
                  IF OtherSide(a, b, i) = IntDim(1) THEN AnyDim ELSE OtherSide(a, b, i)
           /\ warnings =
                invocations *
                  Cardinality({i \in OneSidedAny(a, b) : OtherSide(a, b, i) # IntDim(1)})

\* C10 witness: Any met a literal 1 and, one dim over, a literal 2.
C10_Witness ==
  /\ BroadcastCalled /\ BothTensors
  /\ types[1].shape = <<AnyDim, AnyDim>>
  /\ types[2].shape = <<IntDim(1), IntDim(2)>>
  /\ ret = "true"
  /\ last[1].value.shape = <<AnyDim, IntDim(2)>>
  /\ warnings = invocations


(***************************************************************************)
(* Frame of AddImplement (StrategySpec).                                   *)
(***************************************************************************)
\* The sequence s is the sequence t with the last element of t removed.
IsAllButLast(s, t) == Len(t) = Len(s) + 1 /\ \A i \in 1..Len(s) : t[i] = s[i]

\* The specializations present before the step whose implementation list
\* the step changed.
ChangedSpecializations ==
  {k \in 1..Len(specializations) :
     specializations'[k].implements # specializations[k].implements}

\* C11: an AddImplement call keeps every specialization at its position with
\* its condition and every registered implementation at its position with
\* its compute, schedule and plevel; it changes the implementation list of
\* at most one specialization, that of the condition it ran under, where the
\* new implementation comes last; a specialization it creates comes last
\* in the strategy and holds the new implementation alone.
C11_AppendOnly ==
  [][calls' # calls =>
       /\ Len(specializations') >= Len(specializations)
       /\ Len(specializations') <= Len(specializations) + 1
       /\ \A k \in 1..Len(specializations) :
            /\ specializations'[k].condition = specializations[k].condition
            /\ \/ specializations'[k].implements = specializations[k].implements
               \/ /\ IsAllButLast(specializations[k].implements,
                                  specializations'[k].implements)
                  /\ CondEq(specializations[k].condition, curr_cond')
                  /\ specializations'[k].implements[Len(specializations'[k].implements)].id
                       = nobjects'
       /\ Cardinality(ChangedSpecializations) <= 1
       /\ Len(specializations') = Len(specializations) + 1 =>
            /\ ChangedSpecializations = {}
            /\ specializations'[Len(specializations')].condition = curr_cond'
            /\ Len(specializations'[Len(specializations')].implements) = 1
            /\ specializations'[Len(specializations')].implements[1].id = nobjects'
       /\ Len(specializations') = Len(specializations) =>
            Cardinality(ChangedSpecializations) = 1]_vars

\* C11 witness: the third call joined the first specialization, after its
\* first implementation, and left the second specialization as it was.
C11_Witness ==
  /\ Len(calls) = 3
  /\ Len(specializations) = 2
  /\ Len(specializations[1].implements) = 2
  /\ specializations[1].implements[1].id = 1
  /\ specializations[1].implements[2].id = 3
  /\ Len(specializations[2].implements) = 1
  /\ specializations[2].implements[1].id = 2
  /\ CondEq(specializations[1].condition, curr_cond)

====
